---- MODULE Spec2Model ----
(***************************************************************************)
(* Model of kucoin/client.py: the Client's request signer, the request     *)
(* executor (_request), the response handler (_handle_response) and the    *)
(* order / transfer endpoint builders that validate their parameters.      *)
(*                                                                         *)
(* Python values are modelled as tagged records [t, v] whose v is the      *)
(* value's text, so that str() (used by the query string) and JSON         *)
(* encoding (used by the body) are different conversions of one value.     *)
(* A dict is a sequence of [k, v] entries in insertion order.              *)
(***************************************************************************)
EXTENDS Integers, Sequences, FiniteSets, TLC

VARIABLES client, pc, call, req, sig, nsent, resp, outcome, threads

vars == <<client, pc, call, req, sig, nsent, resp, outcome, threads>>

(***************************************************************************)
(* Bounds of the model.                                                    *)
(***************************************************************************)
\* longest data mapping handed to the generic _get/_post/_put/_delete calls
MaxDataLen == 2
\* the clock (time.time() in ms) reads one of MaxTick + 1 consecutive values
MaxTick == 1

(***************************************************************************)
(* Python values.                                                          *)
(***************************************************************************)
PyNone == [t |-> "none", v |-> "None"]
PyStr(s) == [t |-> "str", v |-> s]
PyInt(n) == [t |-> "int", v |-> ToString(n)]
PyBool(b) == [t |-> "bool", v |-> IF b THEN "True" ELSE "False"]

\* bool(x): None, 0, '' and False are falsy
Truthy(x) ==
    CASE x.t = "none" -> FALSE
      [] x.t = "str" -> x.v # ""
      [] x.t = "int" -> x.v # "0"
      [] x.t = "bool" -> x.v = "True"

\* str(x), as "{}".format(x) renders it
PyFormat(x) == x.v

\* json.dumps(x) of a scalar
JsonScalar(x) ==
    CASE x.t = "none" -> "null"
      [] x.t = "str" -> "\"" \o x.v \o "\""
      [] x.t = "int" -> x.v
      [] x.t = "bool" -> IF x.v = "True" THEN "true" ELSE "false"

(***************************************************************************)
(* Insertion-ordered dicts.                                                *)
(***************************************************************************)
EmptyDict == << >>

DictKeys(d) == {d[i].k : i \in 1..Len(d)}

HasKey(d, key) == key \in DictKeys(d)

DictGet(d, key) == d[CHOOSE i \in 1..Len(d) : d[i].k = key].v

\* d[key] = val: an existing key keeps its position, a new key goes last
DictSet(d, key, val) ==
    IF HasKey(d, key)
    THEN [i \in 1..Len(d) |-> IF d[i].k = key THEN [k |-> key, v |-> val] ELSE d[i]]
    ELSE Append(d, [k |-> key, v |-> val])

\* "if cond: d[key] = val"
SetIf(cond, d, key, val) == IF cond THEN DictSet(d, key, val) ELSE d

RECURSIVE JoinWith(_, _)
\* sep.join(parts)
JoinWith(sep, parts) ==
    IF Len(parts) = 0 THEN ""
    ELSE IF Len(parts) = 1 THEN parts[1]
    ELSE parts[1] \o sep \o JoinWith(sep, Tail(parts))

(***************************************************************************)
(* kucoin/utils.py (not among the sources; modelled from the description   *)
(* of the signer: "minified JSON object, no extraneous whitespace, stable  *)
(* key order as provided").                                                *)
(***************************************************************************)
compact_json_dict(data) ==
    "{" \o JoinWith(",", [i \in 1..Len(data) |->
                            "\"" \o data[i].k \o "\":" \o JsonScalar(data[i].v)]) \o "}"

\* flat_uuid(): a random identifier; the set it draws from
UUIDs == {"uuid-a", "uuid-b"}

(***************************************************************************)
(* Client constants and construction.                                      *)
(***************************************************************************)
REST_API_URL == "https://openapi-v2.kucoin.com"
SANDBOX_API_URL == "https://openapi-sandbox.kucoin.com"
API_VERSION == "v1"
ORDER_LIMIT == "limit"
ORDER_MARKET == "market"
TIMEINFORCE_GOOD_TILL_TIME == "GTT"

\* the requests_params argument of the constructor: None, or a dict of
\* keyword overrides for every request (timeout, headers)
NoParams == [none |-> TRUE, hasTimeout |-> FALSE, timeout |-> 0,
             hasHeaders |-> FALSE, headers |-> EmptyDict]
ParamsDict(hasT, t, hasH, h) ==
    [none |-> FALSE, hasTimeout |-> hasT, timeout |-> t, hasHeaders |-> hasH, headers |-> h]

\* bool(requests_params): None and {} are falsy
ParamsTruthy(rp) == ~rp.none /\ (rp.hasTimeout \/ rp.hasHeaders)

\* _init_session: the session's default headers
_init_session(api_key, passphrase) ==
    << [k |-> "Accept", v |-> "application/json"],
       [k |-> "User-Agent", v |-> "python-kucoin"],
       [k |-> "Content-Type", v |-> "application/json"],
       [k |-> "KC-API-KEY", v |-> api_key],
       [k |-> "KC-API-PASSPHRASE", v |-> passphrase] >>

\* Client.__init__
NewClient(api_key, api_secret, passphrase, sandbox, requests_params) ==
    [API_KEY |-> api_key,
     API_SECRET |-> api_secret,
     API_PASSPHRASE |-> passphrase,
     API_URL |-> IF sandbox THEN SANDBOX_API_URL ELSE REST_API_URL,
     requests_params |-> requests_params,
     session_headers |-> _init_session(api_key, passphrase)]

(***************************************************************************)
(* The request signer.                                                     *)
(***************************************************************************)
\* method.upper()
Upper(method) ==
    CASE method = "get" -> "GET"
      [] method = "post" -> "POST"
      [] method = "put" -> "PUT"
      [] method = "delete" -> "DELETE"

\* variant: the parameters joined in sorted key order, '&'.join(... for key in sorted(data))
KeyRank(key) ==
    CASE key = "amount" -> 1 [] key = "currency" -> 2 [] key = "symbol" -> 3 [] OTHER -> 4

_get_params_for_sig_sorted(data) ==
    LET sorted == SortSeq(data, LAMBDA x, y : KeyRank(x.k) < KeyRank(y.k))
    IN  JoinWith("&", [i \in 1..Len(sorted) |-> sorted[i].k \o "=" \o PyFormat(sorted[i].v)])

\* '&'.join(["{}={}".format(key, data[key]) for key in data])
_get_params_for_sig(data) ==
    JoinWith("&", [i \in 1..Len(data) |-> data[i].k \o "=" \o PyFormat(data[i].v)])

\* the endpoint segment of the string to sign (lines 93-97)
SigEndpoint(method, path, data) ==
    IF method = "get" /\ Len(data) > 0
    THEN path \o "?" \o _get_params_for_sig(data)
    ELSE path

\* variant: "else: data_json = compact_json_dict(data)", which signs "{}" for empty data
SigDataJson_unguarded(method, data) ==
    IF method # "get" THEN compact_json_dict(data) ELSE ""

\* the body segment of the string to sign (lines 92, 98-99)
SigDataJson(method, data) ==
    IF method # "get" /\ Len(data) > 0 THEN compact_json_dict(data) ELSE ""

\* sig_str (line 100)
SigStr(nonce, method, path, data) ==
    ToString(nonce) \o Upper(method) \o SigEndpoint(method, path, data)
        \o SigDataJson(method, data)

\* base64(HMAC-SHA256(secret, sig_str)), kept symbolic
_generate_signature(secret, nonce, method, path, data) ==
    "b64(hmac-sha256(" \o secret \o "," \o SigStr(nonce, method, path, data) \o "))"

_create_path(path) == "/api/" \o API_VERSION \o "/" \o path

_create_uri(api_url, path) == api_url \o path

(***************************************************************************)
(* The request executor.                                                   *)
(***************************************************************************)
\* kwargs['timeout'] = 10
DEFAULT_TIMEOUT == 10

NoSig == [signed |-> FALSE, nonce |-> "", method |-> "", endpoint |-> "",
          data_json |-> "", sig_str |-> "", signature |-> ""]

NoReq == [method |-> "none", uri |-> "", timeout |-> 0, headers |-> EmptyDict,
          hasParams |-> FALSE, params |-> EmptyDict,
          dataKind |-> "absent", dataDict |-> EmptyDict, dataJson |-> ""]

\* what the signer was given and what it produced for one signed request
\* (lines 127-129 calling lines 92-102)
SignatureOf(secret, nonce, method, full_path, data) ==
    [signed |-> TRUE,
     nonce |-> ToString(nonce),
     method |-> Upper(method),
     endpoint |-> SigEndpoint(method, full_path, data),
     data_json |-> SigDataJson(method, data),
     sig_str |-> SigStr(nonce, method, full_path, data),
     signature |-> _generate_signature(secret, nonce, method, full_path, data)]

\* kwargs after lines 113-120: the timeout and the headers dict of this call.
\* A headers dict inside requests_params is the very object the call writes to.
KwTimeout(rp) == IF ParamsTruthy(rp) /\ rp.hasTimeout THEN rp.timeout ELSE DEFAULT_TIMEOUT

KwHeadersShared(rp) == ParamsTruthy(rp) /\ rp.hasHeaders

KwHeaders(rp) == IF KwHeadersShared(rp) THEN rp.headers ELSE EmptyDict

\* lines 125-129: the two headers of a signed call
SignedHeaders(headers, signed, nonce, signature) ==
    IF signed
    THEN DictSet(DictSet(headers, "KC-API-TIMESTAMP", ToString(nonce)),
                 "KC-API-SIGN", signature)
    ELSE headers

\* line 131: GET data travels as URL parameters
SendAsParams(method, data) == Len(data) > 0 /\ method = "get"

\* variant: only a POST body is encoded, "method == 'post'" for "method != 'get'"
SendAsJson_post_only(method, signed, data) == signed /\ method = "post" /\ Len(data) > 0

\* line 135: signed non-GET data travels as a JSON body
SendAsJson(method, signed, data) == signed /\ method # "get" /\ Len(data) > 0

\* the JSON body of line 136
BodyJson(data) == compact_json_dict(data)

\* _request up to the dispatch of line 138: the keyword arguments handed to
\* session.<method>(uri, **kwargs), the signer's record, and requests_params
\* as the call leaves it
_request(c, method, path, signed, data, nonce) ==
    LET rp == c.requests_params
        full_path == _create_path(path)
        uri == _create_uri(c.API_URL, full_path)
        signature == _generate_signature(c.API_SECRET, nonce, method, full_path, data)
        headers == SignedHeaders(KwHeaders(rp), signed, nonce, signature)
        asParams == SendAsParams(method, data)
        asJson == SendAsJson(method, signed, data)
    IN  [request |->
            [method |-> method,
             uri |-> uri,
             timeout |-> KwTimeout(rp),
             headers |-> headers,
             hasParams |-> asParams,
             params |-> IF asParams THEN data ELSE EmptyDict,
             dataKind |-> IF asParams THEN "absent" ELSE IF asJson THEN "json" ELSE "dict",
             dataDict |-> IF asParams \/ asJson THEN EmptyDict ELSE data,
             dataJson |-> IF asJson THEN BodyJson(data) ELSE ""],
         sig |-> IF signed
                 THEN SignatureOf(c.API_SECRET, nonce, method, full_path, data)
                 ELSE NoSig,
         requests_params |-> IF KwHeadersShared(rp)
                             THEN [rp EXCEPT !.headers = headers]
                             ELSE rp]

(***************************************************************************)
(* Responses and the response handler.                                     *)
(***************************************************************************)
JNull == [t |-> "null", v |-> "null"]
JNum(n) == [t |-> "num", v |-> ToString(n)]
JBool(b) == [t |-> "bool", v |-> IF b THEN "true" ELSE "false"]
JStr(s) == [t |-> "str", v |-> s]
JArr(items) == [t |-> "arr", items |-> items]
JObj(fields) == [t |-> "obj", fields |-> fields]

\* Python's truth value of a decoded JSON value
JsonTruthy(x) ==
    CASE x.t = "null" -> FALSE
      [] x.t = "num" -> x.v # "0"
      [] x.t = "bool" -> x.v = "true"
      [] x.t = "str" -> x.v # ""
      [] x.t = "arr" -> Len(x.items) > 0
      [] x.t = "obj" -> Len(x.fields) > 0

\* the substring test of "key in some_str"
Contains(s, key) ==
    \E i \in 1..(Len(s) - Len(key) + 1) : SubSeq(s, i, i + Len(key) - 1) = key

\* "key in res": membership for a dict or a list, substring for a str,
\* TypeError for None, numbers and booleans
PyIn(key, res) ==
    CASE res.t = "obj" -> IF HasKey(res.fields, key) THEN "True" ELSE "False"
      [] res.t = "arr" -> IF \E i \in 1..Len(res.items) : res.items[i] = JStr(key)
                          THEN "True" ELSE "False"
      [] res.t = "str" -> IF Contains(res.v, key) THEN "True" ELSE "False"
      [] OTHER -> "TypeError"

\* res[key] with a str key: defined for a dict only
CanSubscript(res) == res.t = "obj"

\* variant: "if not response.ok", which lets 3xx through
StartsWith2_ok(status_code) == status_code < 400

\* str(response.status_code).startswith('2')
StartsWith2(status_code) == SubSeq(ToString(status_code), 1, 1) = "2"

Raise(exc, decoded) == [kind |-> "raise", exc |-> exc, value |-> JNull, decoded |-> decoded]

Return(value) == [kind |-> "return", exc |-> "", value |-> value, decoded |-> TRUE]

\* lines 161-163
UnwrapData(res) ==
    LET d == PyIn("data", res)
    IN  IF d = "TypeError" THEN Raise("TypeError", TRUE)
        ELSE IF d = "False" THEN Return(res)
        ELSE IF ~CanSubscript(res) THEN Raise("TypeError", TRUE)
        ELSE Return(DictGet(res.fields, "data"))

\* lines 156-157, then the rest
CheckSuccess(res) ==
    LET s == PyIn("success", res)
    IN  IF s = "TypeError" THEN Raise("TypeError", TRUE)
        ELSE IF s = "False" THEN UnwrapData(res)
        ELSE IF ~CanSubscript(res) THEN Raise("TypeError", TRUE)
        ELSE IF ~JsonTruthy(DictGet(res.fields, "success"))
             THEN Raise("KucoinAPIException", TRUE)
        ELSE UnwrapData(res)

\* lines 153-154, then the rest
CheckCode(res) ==
    LET c == PyIn("code", res)
    IN  IF c = "TypeError" THEN Raise("TypeError", TRUE)
        ELSE IF c = "False" THEN CheckSuccess(res)
        ELSE IF ~CanSubscript(res) THEN Raise("TypeError", TRUE)
        ELSE IF DictGet(res.fields, "code") # JStr("200000")
             THEN Raise("KucoinAPIException", TRUE)
        ELSE CheckSuccess(res)

\* _handle_response: response.json() raises ValueError on a body that is not
\* JSON, and only ValueError is caught
_handle_response(response) ==
    IF ~StartsWith2(response.status_code)
    THEN Raise("KucoinAPIException", FALSE)
    ELSE IF ~response.body.decodes
    THEN Raise("KucoinRequestException", TRUE)
    ELSE CheckCode(response.body.value)

(***************************************************************************)
(* Endpoint builders that validate or complete their parameters.  Each     *)
(* yields the exception it raises ("" when none) and the data it stages.   *)
(***************************************************************************)
Built(data) == [error |-> "", data |-> data]

Rejected(exc) == [error |-> exc, data |-> EmptyDict]

\* variant: no fallback, "data['clientOid'] = client_oid"
ClientOid_no_fallback(client_oid, uuid) == client_oid

\* lines 373-376, 412-415, 253-256: the caller's identifier, else flat_uuid()
ClientOid(client_oid, uuid) == IF Truthy(client_oid) THEN client_oid ELSE PyStr(uuid)

\* variant: the "not both" check of lines 360-361 left out
MarketOrderError_neither_only(size, funds) ==
    IF ~Truthy(size) /\ ~Truthy(funds) THEN "MarketOrderException" ELSE ""

\* lines 357-361
MarketOrderError(size, funds) ==
    IF ~Truthy(size) /\ ~Truthy(funds) THEN "MarketOrderException"
    ELSE IF Truthy(size) /\ Truthy(funds) THEN "MarketOrderException"
    ELSE ""

\* lines 363-380
MarketOrderData(symbol, side, size, funds, client_oid, remark, stp, uuid) ==
    LET d0 == << [k |-> "side", v |-> side],
                 [k |-> "symbol", v |-> symbol],
                 [k |-> "type", v |-> PyStr(ORDER_MARKET)] >>
        d1 == SetIf(Truthy(size), d0, "size", size)
        d2 == SetIf(Truthy(funds), d1, "funds", funds)
        d3 == DictSet(d2, "clientOid", ClientOid(client_oid, uuid))
        d4 == SetIf(Truthy(remark), d3, "remark", remark)
    IN  SetIf(Truthy(stp), d4, "stp", stp)

create_market_order(symbol, side, size, funds, client_oid, remark, stp, uuid) ==
    IF MarketOrderError(size, funds) # ""
    THEN Rejected(MarketOrderError(size, funds))
    ELSE Built(MarketOrderData(symbol, side, size, funds, client_oid, remark, stp, uuid))

\* variant: the check of lines 392-393 (stop_price without stop) left out
LimitOrderError_no_stop_type(a) ==
    IF Truthy(a.stop) /\ ~Truthy(a.stop_price) THEN "LimitOrderException"
    ELSE IF Truthy(a.cancel_after) /\ a.time_in_force # PyStr(TIMEINFORCE_GOOD_TILL_TIME)
         THEN "LimitOrderException"
    ELSE IF Truthy(a.hidden) /\ Truthy(a.iceberg) THEN "LimitOrderException"
    ELSE IF Truthy(a.iceberg) /\ ~Truthy(a.visible_size) THEN "LimitOrderException"
    ELSE ""

\* lines 389-402; a is the record of the call's arguments
LimitOrderError(a) ==
    IF Truthy(a.stop) /\ ~Truthy(a.stop_price) THEN "LimitOrderException"
    ELSE IF Truthy(a.stop_price) /\ ~Truthy(a.stop) THEN "LimitOrderException"
    ELSE IF Truthy(a.cancel_after) /\ a.time_in_force # PyStr(TIMEINFORCE_GOOD_TILL_TIME)
         THEN "LimitOrderException"
    ELSE IF Truthy(a.hidden) /\ Truthy(a.iceberg) THEN "LimitOrderException"
    ELSE IF Truthy(a.iceberg) /\ ~Truthy(a.visible_size) THEN "LimitOrderException"
    ELSE ""

\* lines 404-433; a is the record of the call's arguments
LimitOrderData(a, uuid) ==
    LET d0 == << [k |-> "symbol", v |-> a.symbol],
                 [k |-> "side", v |-> a.side],
                 [k |-> "type", v |-> PyStr(ORDER_LIMIT)],
                 [k |-> "price", v |-> a.price],
                 [k |-> "size", v |-> a.size] >>
        d1 == DictSet(d0, "clientOid", ClientOid(a.client_oid, uuid))
        d2 == SetIf(Truthy(a.remark), d1, "remark", a.remark)
        d3 == SetIf(Truthy(a.stp), d2, "stp", a.stp)
        d4 == SetIf(Truthy(a.time_in_force), d3, "timeInForce", a.time_in_force)
        d5 == SetIf(Truthy(a.cancel_after), d4, "cancelAfter", a.cancel_after)
        d6 == SetIf(Truthy(a.post_only), d5, "postOnly", a.post_only)
        d7 == IF Truthy(a.stop)
              THEN DictSet(DictSet(d6, "stop", a.stop), "stopPrice", a.stop_price)
              ELSE d6
        d8 == SetIf(Truthy(a.hidden), d7, "hidden", a.hidden)
    IN  IF Truthy(a.iceberg)
        THEN DictSet(DictSet(d8, "iceberg", a.iceberg), "visible_size", a.visible_size)
        ELSE d8

create_limit_order(a, uuid) ==
    IF LimitOrderError(a) # ""
    THEN Rejected(LimitOrderError(a))
    ELSE Built(LimitOrderData(a, uuid))

\* lines 247-256
create_inner_transfer(from_account_id, to_account_id, amount, order_id, uuid) ==
    Built(DictSet(<< [k |-> "payAccountId", v |-> from_account_id],
                     [k |-> "recAccountId", v |-> to_account_id],
                     [k |-> "amount", v |-> amount] >>,
                  "clientOid", ClientOid(order_id, uuid)))

\* variant: "data = {'symbol': symbol}", which sends a null symbol
cancel_all_orders_always(symbol) == << [k |-> "symbol", v |-> symbol] >>

\* lines 445-447: "if symbol is not None"
cancel_all_orders(symbol) == SetIf(symbol # PyNone, EmptyDict, "symbol", symbol)

\* an argument the caller does not pass, before the "def" line's default
\* value stands in for it
Omitted == [t |-> "omitted", v |-> ""]

\* the value a parameter declared "name=dflt" has in the body of the method
Default(arg, dflt) == IF arg = Omitted THEN dflt ELSE arg

\* lines 221-229
get_account_activity(a) ==
    LET d1 == SetIf(Truthy(a.start), EmptyDict, "startAt", a.start)
        d2 == SetIf(Truthy(a.end), d1, "endAt", a.end)
        d3 == SetIf(Truthy(a.page), d2, "currentPage", a.page)
    IN  SetIf(Truthy(a.limit), d3, "pageSize", a.limit)

\* lines 236-240
get_account_holds(a) ==
    LET d1 == SetIf(Truthy(a.page), EmptyDict, "currentPage", a.page)
    IN  SetIf(Truthy(a.page_size), d1, "pageSize", a.page_size)

\* lines 283-295 and 304-316: the same body in get_deposits and get_withdrawals
TransferFilters(a) ==
    LET d1 == SetIf(Truthy(a.currency), EmptyDict, "currency", a.currency)
        d2 == SetIf(Truthy(a.status), d1, "status", a.status)
        d3 == SetIf(Truthy(a.start), d2, "startAt", a.start)
        d4 == SetIf(Truthy(a.end), d3, "endAt", a.end)
        d5 == SetIf(Truthy(a.limit), d4, "pageSize", a.limit)
    IN  SetIf(Truthy(a.page), d5, "page", a.page)

get_deposits(a) == TransferFilters(a)

get_withdrawals(a) == TransferFilters(a)

\* lines 332-343
create_withdrawal(a) ==
    LET is_inner == Default(a.is_inner, PyBool(FALSE))
        d0 == << [k |-> "currency", v |-> a.currency],
                 [k |-> "amount", v |-> a.amount],
                 [k |-> "address", v |-> a.address] >>
        d1 == SetIf(Truthy(a.memo), d0, "memo", a.memo)
        d2 == SetIf(Truthy(is_inner), d1, "isInner", is_inner)
    IN  SetIf(Truthy(a.remark), d2, "remark", a.remark)

\* variant: every filter is staged, given or not
get_orders_unconditional(a) ==
    << [k |-> "symbol", v |-> a.symbol], [k |-> "status", v |-> a.status],
       [k |-> "side", v |-> a.side], [k |-> "type", v |-> a.order_type],
       [k |-> "startAt", v |-> a.start], [k |-> "endAt", v |-> a.end],
       [k |-> "page", v |-> a.page], [k |-> "pageSize", v |-> a.limit] >>

\* lines 454-471
get_orders(a) ==
    LET d1 == SetIf(Truthy(a.symbol), EmptyDict, "symbol", a.symbol)
        d2 == SetIf(Truthy(a.status), d1, "status", a.status)
        d3 == SetIf(Truthy(a.side), d2, "side", a.side)
        d4 == SetIf(Truthy(a.order_type), d3, "type", a.order_type)
        d5 == SetIf(Truthy(a.start), d4, "startAt", a.start)
        d6 == SetIf(Truthy(a.end), d5, "endAt", a.end)
        d7 == SetIf(Truthy(a.page), d6, "page", a.page)
    IN  SetIf(Truthy(a.limit), d7, "pageSize", a.limit)

\* lines 479-492
get_historical_orders(a) ==
    LET d1 == SetIf(Truthy(a.symbol), EmptyDict, "symbol", a.symbol)
        d2 == SetIf(Truthy(a.side), d1, "side", a.side)
        d3 == SetIf(Truthy(a.start), d2, "startAt", a.start)
        d4 == SetIf(Truthy(a.end), d3, "endAt", a.end)
        d5 == SetIf(Truthy(a.page), d4, "page", a.page)
    IN  SetIf(Truthy(a.limit), d5, "pageSize", a.limit)

\* lines 507-524
get_fills(a) ==
    LET d0 == SetIf(Truthy(a.order_id), EmptyDict, "orderId", a.order_id)
        d1 == SetIf(Truthy(a.symbol), d0, "symbol", a.symbol)
        d2 == SetIf(Truthy(a.side), d1, "side", a.side)
        d3 == SetIf(Truthy(a.order_type), d2, "type", a.order_type)
        d4 == SetIf(Truthy(a.start), d3, "startAt", a.start)
        d5 == SetIf(Truthy(a.end), d4, "endAt", a.end)
        d6 == SetIf(Truthy(a.page), d5, "page", a.page)
    IN  SetIf(Truthy(a.limit), d6, "pageSize", a.limit)

\* lines 538-544: the path and the data of get_ticker
get_ticker(a) ==
    IF a.symbol # PyNone
    THEN [path |-> "market/orderbook/level1",
          data |-> << [k |-> "symbol", v |-> a.symbol] >>]
    ELSE [path |-> "market/allTickers", data |-> EmptyDict]

\* lines 550-555
get_fiat_prices(a) ==
    LET d1 == SetIf(a.base # PyNone, EmptyDict, "base", a.base)
    IN  SetIf(a.symbol # PyNone, d1, "currencies", a.symbol)

\* line 865: calendar.timegm(datetime.utcnow().date().timetuple()), the first
\* second of the UTC day that holds the instant now (in seconds)
StartOfUtcDay(now) == (now \div 86400) * 86400

\* lines 856-869; utcnow is the clock reading of line 865, time_time the one
\* of line 869, both in whole seconds
get_kline_data(a, utcnow, time_time) ==
    LET kline_type == Default(a.kline_type, PyStr("5min"))
        start == Default(a.start, PyNone)
        end == Default(a.end, PyNone)
        d0 == << [k |-> "symbol", v |-> a.symbol] >>
        d1 == SetIf(kline_type # PyNone, d0, "type", kline_type)
        d2 == DictSet(d1, "startAt",
                      IF start # PyNone THEN start ELSE PyInt(StartOfUtcDay(utcnow)))
    IN  DictSet(d2, "endAt", IF end # PyNone THEN end ELSE PyInt(time_time))

(***************************************************************************)
(* Inputs.                                                                 *)
(***************************************************************************)
\* readings of int(time.time() * 1000)
Nonces == {1000 + i : i \in 0..MaxTick}

DataKeys == {"symbol", "currency", "amount"}

DataVals == {PyStr("BTC"), PyInt(10), PyBool(TRUE)}

\* every mapping of at most MaxDataLen entries with distinct keys, in every
\* insertion order
DataDicts ==
    UNION {{d \in [1..n -> [k : DataKeys, v : DataVals]] :
                \A i, j \in 1..n : i # j => d[i].k # d[j].k} : n \in 0..MaxDataLen}

\* the constructor's arguments
ClientParams == {NoParams, ParamsDict(FALSE, 0, FALSE, EmptyDict),
                 ParamsDict(TRUE, 30, FALSE, EmptyDict)}

MarketOrderArgs ==
    [symbol : {PyStr("KCS-BTC")},
     side : {PyStr("buy")},
     size : {PyNone, PyInt(0), PyStr("1")},
     funds : {PyNone, PyInt(0), PyStr("100")},
     client_oid : {PyNone, PyStr(""), PyStr("my-oid")},
     remark : {PyNone, PyStr("note")},
     stp : {PyNone, PyStr("CN")}]

LimitOrderArgs ==
    [symbol : {PyStr("KCS-BTC")},
     side : {PyStr("sell")},
     price : {PyStr("0.5")},
     size : {PyStr("1")},
     client_oid : {PyNone, PyStr(""), PyStr("my-oid")},
     remark : {PyNone, PyStr("note")},
     time_in_force : {PyNone, PyStr("GTT"), PyStr("GTC")},
     stop : {PyNone, PyStr("loss")},
     stop_price : {PyNone, PyInt(0), PyStr("0.4")},
     stp : {PyNone, PyStr("CN")},
     cancel_after : {PyNone, PyInt(60)},
     post_only : {PyNone, PyBool(TRUE)},
     hidden : {PyNone, PyBool(FALSE), PyBool(TRUE)},
     iceberg : {PyNone, PyBool(TRUE)},
     visible_size : {PyNone, PyInt(0), PyStr("0.1")}]

InnerTransferArgs ==
    [from_account_id : {PyStr("acc-1")},
     to_account_id : {PyStr("acc-2")},
     amount : {PyInt(0), PyStr("5")},
     order_id : {PyNone, PyStr(""), PyStr("my-oid")}]

CancelAllOrdersArgs == [symbol : {PyNone, PyStr(""), PyStr("KCS-BTC")}]

\* the filters of the listing endpoints: left out (None), or given
OptTime == {PyNone, PyInt(1500)}

OptPage == {PyNone, PyInt(0), PyInt(2)}

OptLimit == {PyNone, PyInt(50)}

AccountActivityArgs ==
    [account_id : {PyStr("acc-1")}, start : OptTime, end : OptTime,
     page : OptPage, limit : OptLimit]

AccountHoldsArgs == [account_id : {PyStr("acc-1")}, page : OptPage, page_size : OptLimit]

TransferListArgs ==
    [currency : {PyNone, PyStr("BTC")}, status : {PyNone, PyStr("SUCCESS")},
     start : OptTime, end : OptTime, page : OptPage, limit : OptLimit]

WithdrawalArgs ==
    [currency : {PyStr("BTC")}, amount : {PyStr("5")}, address : {PyStr("addr")},
     memo : {PyNone, PyStr("tag")},
     is_inner : {Omitted, PyBool(FALSE), PyBool(TRUE)},
     remark : {PyNone, PyStr(""), PyStr("note")}]

OrdersArgs ==
    [symbol : {PyNone, PyStr("KCS-BTC")}, status : {PyNone, PyStr("active")},
     side : {PyNone, PyStr("buy")}, order_type : {PyNone, PyStr("limit")},
     start : OptTime, end : OptTime, page : OptPage, limit : OptLimit]

HistoricalOrdersArgs ==
    [symbol : {PyNone, PyStr("KCS-BTC")}, side : {PyNone, PyStr("buy")},
     start : OptTime, end : OptTime, page : OptPage, limit : OptLimit]

FillsArgs ==
    [order_id : {PyNone, PyStr("ord-1")},
     symbol : {PyNone, PyStr("KCS-BTC")}, side : {PyNone, PyStr("buy")},
     order_type : {PyNone, PyStr("limit")},
     start : OptTime, end : OptTime, page : OptPage, limit : OptLimit]

TickerArgs == [symbol : {PyNone, PyStr(""), PyStr("KCS-BTC")}]

FiatPricesArgs == [base : {PyNone, PyStr("EUR")}, symbol : {PyNone, PyStr(""), PyStr("BTC")}]

KlineArgs ==
    [symbol : {PyStr("KCS-BTC")},
     kline_type : {Omitted, PyNone, PyStr("1hour")},
     start : {Omitted, PyNone, PyInt(0), PyInt(1500)},
     end : {Omitted, PyNone, PyInt(0), PyInt(1600)}]

\* readings of the wall clock in seconds: late on one UTC day, early on the next
ClockSecs == {172700, 172900}

\* requests_params that hold a 'headers' mapping of the caller's
HeaderParams == {ParamsDict(FALSE, 0, TRUE, EmptyDict),
                 ParamsDict(TRUE, 30, TRUE, << [k |-> "X-Extra", v |-> "1"] >>)}

NoArgs == [none |-> TRUE]

\* the threads that call one client at the same time
Callers == {"A", "B"}

\* the signed calls they make: get_accounts and create_account
SignedCalls ==
    {[method |-> "get", path |-> "accounts", data |-> EmptyDict],
     [method |-> "post", path |-> "accounts",
      data |-> << [k |-> "type", v |-> PyStr("trade")],
                  [k |-> "currency", v |-> PyStr("BTC")] >>]}

\* a thread outside _request: at holds the line it is about to run, nonce
\* the local of line 127, own the dict line 120 made for this call when
\* requests_params brought none, sent the headers the transport was given
IdleThread == [at |-> 0, method |-> "", path |-> "", data |-> EmptyDict,
               nonce |-> 0, own |-> EmptyDict, sent |-> EmptyDict]

NoThreads == [t \in Callers |-> IdleThread]

Statuses == {200, 201, 302, 500}

\* a JSON object with the chosen members of the envelope
Envelope(code, success, data) ==
    JObj(SetIf(data.t # "absent",
               SetIf(success.t # "absent",
                     SetIf(code.t # "absent", EmptyDict, "code", code),
                     "success", success),
               "data", data))

Absent == [t |-> "absent", v |-> ""]

\* response bodies: their text stands for what response.json() makes of it
Bodies ==
    {[decodes |-> FALSE, value |-> JStr("")],
     [decodes |-> FALSE, value |-> JStr("<html>Bad Gateway</html>")],
     [decodes |-> TRUE, value |-> JNull],
     [decodes |-> TRUE, value |-> JNum(7)],
     [decodes |-> TRUE, value |-> JBool(TRUE)],
     [decodes |-> TRUE, value |-> JStr("ok")],
     [decodes |-> TRUE, value |-> JStr("error code 5")],
     [decodes |-> TRUE, value |-> JArr(<< >>)],
     [decodes |-> TRUE, value |-> JArr(<<JStr("data")>>)]}
    \cup
    {[decodes |-> TRUE, value |-> Envelope(c, s, d)] :
        c \in {Absent, JStr("200000"), JStr("400001"), JNum(200000)},
        s \in {Absent, JBool(TRUE), JBool(FALSE), JNum(0)},
        d \in {Absent, JNull, JObj(<<[k |-> "x", v |-> JNum(1)]>>)}}

NoResp == [status_code |-> 0, body |-> [decodes |-> FALSE, value |-> JStr("")]]

NoCall == [fn |-> "", args |-> NoArgs, method |-> "", path |-> "", signed |-> FALSE,
           data |-> EmptyDict, nonce |-> 0, uuid |-> ""]

NoOutcome == [kind |-> "none", exc |-> "", value |-> JNull, decoded |-> FALSE]

Pending == [kind |-> "pending", exc |-> "", value |-> JNull, decoded |-> FALSE]

(***************************************************************************)
(* The state machine: one caller, one call at a time.                      *)
(*   client   the Client object                                            *)
(*   pc       "idle"; "raised" when the call failed validation; "sent" once *)
(*            session.<method>() is invoked; "waiting" once the request is *)
(*            on the wire; "done" when the call has returned or raised     *)
(*   call     the arguments of the call in progress or just rejected       *)
(*   req      the keyword arguments handed to the transport                *)
(*   sig      the signer's inputs and outputs for that request             *)
(*   nsent    transport calls made by the most recent call                 *)
(*   resp     the response the transport returned                          *)
(*   outcome  what the most recent call returned or raised                 *)
(***************************************************************************)
Init ==
    /\ client \in {NewClient("key", "s3cr3t", "pass", sandbox, rp) :
                      sandbox \in BOOLEAN, rp \in ClientParams}
    /\ pc = "idle"
    /\ call = NoCall
    /\ req = NoReq
    /\ sig = NoSig
    /\ nsent = 0
    /\ resp = NoResp
    /\ outcome = NoOutcome
    /\ threads = NoThreads

\* a call reaches line 138: session.<method>(uri, **kwargs) is invoked once
Dispatch(fn, args, method, path, signed, data, nonce, uuid) ==
    LET r == _request(client, method, path, signed, data, nonce)
    IN  /\ pc' = "sent"
        /\ call' = [fn |-> fn, args |-> args, method |-> method, path |-> path,
                    signed |-> signed, data |-> data, nonce |-> nonce, uuid |-> uuid]
        /\ req' = r.request
        /\ sig' = r.sig
        /\ client' = [client EXCEPT !.requests_params = r.requests_params]
        /\ nsent' = 1
        /\ resp' = NoResp
        /\ outcome' = Pending
        /\ UNCHANGED threads

\* a call raises before _request is entered
Reject(fn, args, exc) ==
    /\ pc' = "raised"
    /\ call' = [NoCall EXCEPT !.fn = fn, !.args = args]
    /\ req' = NoReq
    /\ sig' = NoSig
    /\ nsent' = 0
    /\ resp' = NoResp
    /\ outcome' = Raise(exc, FALSE)
    /\ UNCHANGED <<client, threads>>

\* variant: the request goes out whether or not the parameters are valid
Endpoint_unchecked(fn, args, built, path, nonce, uuid) ==
    Dispatch(fn, args, "post", path, TRUE, built.data, nonce, uuid)

\* an endpoint method: build the data, then post it signed or raise
Endpoint(fn, args, built, path, nonce, uuid) ==
    IF built.error # ""
    THEN Reject(fn, args, built.error)
    ELSE Dispatch(fn, args, "post", path, TRUE, built.data, nonce, uuid)

\* the wrappers of lines 167-177, as the other endpoint methods call them
_get ==
    /\ pc = "idle"
    /\ \E signed \in BOOLEAN, data \in DataDicts, nonce \in Nonces :
        Dispatch("_get", NoArgs, "get", "accounts", signed, data, nonce, "")

_post ==
    /\ pc = "idle"
    /\ \E signed \in BOOLEAN, data \in DataDicts, nonce \in Nonces :
        Dispatch("_post", NoArgs, "post", "accounts", signed, data, nonce, "")

_put ==
    /\ pc = "idle"
    /\ \E signed \in BOOLEAN, data \in DataDicts, nonce \in Nonces :
        Dispatch("_put", NoArgs, "put", "accounts", signed, data, nonce, "")

_delete ==
    /\ pc = "idle"
    /\ \E signed \in BOOLEAN, data \in DataDicts, nonce \in Nonces :
        Dispatch("_delete", NoArgs, "delete", "accounts", signed, data, nonce, "")

CreateMarketOrder ==
    /\ pc = "idle"
    /\ \E a \in MarketOrderArgs, nonce \in Nonces, uuid \in UUIDs :
        Endpoint("create_market_order", a,
                 create_market_order(a.symbol, a.side, a.size, a.funds, a.client_oid,
                                     a.remark, a.stp, uuid),
                 "orders", nonce, uuid)

CreateLimitOrder ==
    /\ pc = "idle"
    /\ \E a \in LimitOrderArgs, nonce \in Nonces, uuid \in UUIDs :
        Endpoint("create_limit_order", a, create_limit_order(a, uuid),
                 "orders", nonce, uuid)

CreateInnerTransfer ==
    /\ pc = "idle"
    /\ \E a \in InnerTransferArgs, nonce \in Nonces, uuid \in UUIDs :
        Endpoint("create_inner_transfer", a,
                 create_inner_transfer(a.from_account_id, a.to_account_id, a.amount,
                                       a.order_id, uuid),
                 "accounts/inner-transfer", nonce, uuid)

CancelAllOrders ==
    /\ pc = "idle"
    /\ \E a \in CancelAllOrdersArgs, nonce \in Nonces :
        Dispatch("cancel_all_orders", a, "delete", "orders", TRUE,
                 cancel_all_orders(a.symbol), nonce, "")

GetAccountActivity ==
    /\ pc = "idle"
    /\ \E a \in AccountActivityArgs, nonce \in Nonces :
        Dispatch("get_account_activity", a, "get",
                 "accounts/" \o PyFormat(a.account_id) \o "/ledgers", TRUE,
                 get_account_activity(a), nonce, "")

GetAccountHolds ==
    /\ pc = "idle"
    /\ \E a \in AccountHoldsArgs, nonce \in Nonces :
        Dispatch("get_account_holds", a, "get",
                 "accounts/" \o PyFormat(a.account_id) \o "/holds", TRUE,
                 get_account_holds(a), nonce, "")

GetDeposits ==
    /\ pc = "idle"
    /\ \E a \in TransferListArgs, nonce \in Nonces :
        Dispatch("get_deposits", a, "get", "deposits", TRUE, get_deposits(a), nonce, "")

GetWithdrawals ==
    /\ pc = "idle"
    /\ \E a \in TransferListArgs, nonce \in Nonces :
        Dispatch("get_withdrawals", a, "get", "withdrawals", TRUE,
                 get_withdrawals(a), nonce, "")

CreateWithdrawal ==
    /\ pc = "idle"
    /\ \E a \in WithdrawalArgs, nonce \in Nonces :
        Dispatch("create_withdrawal", a, "post", "withdrawals", TRUE,
                 create_withdrawal(a), nonce, "")

GetOrders ==
    /\ pc = "idle"
    /\ \E a \in OrdersArgs, nonce \in Nonces :
        Dispatch("get_orders", a, "get", "orders", TRUE, get_orders(a), nonce, "")

GetHistoricalOrders ==
    /\ pc = "idle"
    /\ \E a \in HistoricalOrdersArgs, nonce \in Nonces :
        Dispatch("get_historical_orders", a, "get", "hist-orders", TRUE,
                 get_historical_orders(a), nonce, "")

GetFills ==
    /\ pc = "idle"
    /\ \E a \in FillsArgs, nonce \in Nonces :
        Dispatch("get_fills", a, "get", "fills", TRUE, get_fills(a), nonce, "")

GetTicker ==
    /\ pc = "idle"
    /\ \E a \in TickerArgs, nonce \in Nonces :
        Dispatch("get_ticker", a, "get", get_ticker(a).path, FALSE,
                 get_ticker(a).data, nonce, "")

GetFiatPrices ==
    /\ pc = "idle"
    /\ \E a \in FiatPricesArgs, nonce \in Nonces :
        Dispatch("get_fiat_prices", a, "get", "prices", FALSE,
                 get_fiat_prices(a), nonce, "")

\* the clock of line 865 is read before the clock of line 869
GetKlineData ==
    /\ pc = "idle"
    /\ \E a \in KlineArgs, nonce \in Nonces, utcnow, time_time \in ClockSecs :
        /\ utcnow <= time_time
        /\ Dispatch("get_kline_data", a, "get", "market/candles", FALSE,
                    get_kline_data(a, utcnow, time_time), nonce, "")

GetTimestamp ==
    /\ pc = "idle"
    /\ \E nonce \in Nonces :
        Dispatch("get_timestamp", NoArgs, "get", "timestamp", FALSE, EmptyDict, nonce, "")

GetAccounts ==
    /\ pc = "idle"
    /\ \E nonce \in Nonces :
        Dispatch("get_accounts", NoArgs, "get", "accounts", TRUE, EmptyDict, nonce, "")

CreateAccount ==
    /\ pc = "idle"
    /\ \E nonce \in Nonces :
        Dispatch("create_account", NoArgs, "post", "accounts", TRUE,
                 << [k |-> "type", v |-> PyStr("trade")],
                    [k |-> "currency", v |-> PyStr("BTC")] >>, nonce, "")

\* inside line 138: the transport has written the request to the wire and
\* waits; the call's keyword arguments are not referenced again
Transmit ==
    /\ pc = "sent"
    /\ pc' = "waiting"
    /\ call' = NoCall
    /\ req' = NoReq
    /\ sig' = NoSig
    /\ UNCHANGED <<client, nsent, resp, outcome, threads>>

\* line 138 returns a response and line 139 handles it: the call is over
Receive ==
    /\ pc = "waiting"
    /\ \E status \in Statuses, body \in Bodies :
        /\ pc' = "done"
        /\ resp' = [status_code |-> status, body |-> body]
        /\ outcome' = _handle_response(resp')
        /\ UNCHANGED <<client, call, req, sig, nsent, threads>>

\* line 138 raises (connection error, timeout): the exception reaches the caller
TransportError ==
    /\ pc \in {"sent", "waiting"}
    /\ pc' = "done"
    /\ resp' = NoResp
    /\ outcome' = Raise("requests.RequestException", FALSE)
    /\ call' = NoCall
    /\ req' = NoReq
    /\ sig' = NoSig
    /\ UNCHANGED <<client, nsent, threads>>

\* the caller has the call's result or exception; nothing of the call remains
Finish ==
    /\ pc \in {"raised", "done"}
    /\ pc' = "idle"
    /\ call' = NoCall
    /\ req' = NoReq
    /\ sig' = NoSig
    /\ nsent' = 0
    /\ resp' = NoResp
    /\ outcome' = NoOutcome
    /\ UNCHANGED <<client, threads>>

Next ==
    \/ _get
    \/ _post
    \/ _put
    \/ _delete
    \/ CreateMarketOrder
    \/ CreateLimitOrder
    \/ CreateInnerTransfer
    \/ CancelAllOrders
    \/ GetAccountActivity
    \/ GetAccountHolds
    \/ GetDeposits
    \/ GetWithdrawals
    \/ CreateWithdrawal
    \/ GetOrders
    \/ GetHistoricalOrders
    \/ GetFills
    \/ GetTicker
    \/ GetFiatPrices
    \/ GetKlineData
    \/ GetTimestamp
    \/ GetAccounts
    \/ CreateAccount
    \/ Transmit
    \/ Receive
    \/ TransportError
    \/ Finish

Spec == Init /\ [][Next]_vars

(***************************************************************************)
(* Several threads in _request on one client, one statement at a time.     *)
(* kwargs['headers'] is a reference: to the dict inside requests_params    *)
(* when line 117 brought one, else to the dict line 120 made for the call. *)
(***************************************************************************)
\* the dict kwargs['headers'] of thread t refers to
KwHeadersOf(t) ==
    IF KwHeadersShared(client.requests_params)
    THEN client.requests_params.headers
    ELSE threads[t].own

\* kwargs['headers'][key] = val in thread t, which then stands at line at
SetHeader(t, key, val, at) ==
    IF KwHeadersShared(client.requests_params)
    THEN /\ client' = [client EXCEPT
                          !.requests_params.headers = DictSet(@, key, val)]
         /\ threads' = [threads EXCEPT ![t].at = at]
    ELSE /\ threads' = [threads EXCEPT ![t].at = at,
                                       ![t].own = DictSet(@, key, val)]
         /\ UNCHANGED client

\* lines 113-125 of a signed call
EnterRequest(t) ==
    /\ threads[t].at = 0
    /\ \E c \in SignedCalls :
        threads' = [threads EXCEPT ![t] =
                        [IdleThread EXCEPT !.at = 127, !.method = c.method,
                                           !.path = c.path, !.data = c.data]]
    /\ UNCHANGED <<client, pc, call, req, sig, nsent, resp, outcome>>

\* lines 127-128: read the clock, write the timestamp header
SetTimestamp(t) ==
    /\ threads[t].at = 127
    /\ \E nonce \in Nonces :
        /\ \A u \in Callers : threads[u].nonce <= nonce
        /\ IF KwHeadersShared(client.requests_params)
           THEN /\ client' = [client EXCEPT !.requests_params.headers =
                                DictSet(@, "KC-API-TIMESTAMP", ToString(nonce))]
                /\ threads' = [threads EXCEPT ![t].at = 129, ![t].nonce = nonce]
           ELSE /\ threads' = [threads EXCEPT
                                ![t].at = 129, ![t].nonce = nonce,
                                ![t].own = DictSet(@, "KC-API-TIMESTAMP", ToString(nonce))]
                /\ UNCHANGED client
    /\ UNCHANGED <<pc, call, req, sig, nsent, resp, outcome>>

\* line 129: sign, write the signature header
SetSignature(t) ==
    /\ threads[t].at = 129
    /\ SetHeader(t, "KC-API-SIGN",
                 _generate_signature(client.API_SECRET, threads[t].nonce,
                                     threads[t].method,
                                     _create_path(threads[t].path), threads[t].data),
                 138)
    /\ UNCHANGED <<pc, call, req, sig, nsent, resp, outcome>>

\* line 138: the transport reads the headers dict it was handed
SessionSend(t) ==
    /\ threads[t].at = 138
    /\ threads' = [threads EXCEPT ![t].at = 139, ![t].sent = KwHeadersOf(t)]
    /\ UNCHANGED <<client, pc, call, req, sig, nsent, resp, outcome>>

\* line 139 and the return to the caller
LeaveRequest(t) ==
    /\ threads[t].at = 139
    /\ threads' = [threads EXCEPT ![t] = IdleThread]
    /\ UNCHANGED <<client, pc, call, req, sig, nsent, resp, outcome>>

InitConcurrent ==
    /\ client \in {NewClient("key", "s3cr3t", "pass", FALSE, rp) :
                      rp \in ClientParams \cup HeaderParams}
    /\ pc = "idle"
    /\ call = NoCall
    /\ req = NoReq
    /\ sig = NoSig
    /\ nsent = 0
    /\ resp = NoResp
    /\ outcome = NoOutcome
    /\ threads = NoThreads

NextConcurrent ==
    \E t \in Callers :
        \/ EnterRequest(t)
        \/ SetTimestamp(t)
        \/ SetSignature(t)
        \/ SessionSend(t)
        \/ LeaveRequest(t)

SpecConcurrent == InitConcurrent /\ [][NextConcurrent]_vars

(***************************************************************************)
(* The same client built with requests_params={'headers': {...}}: line 117 *)
(* puts that very mapping into kwargs, so lines 128-129 write into it.     *)
(***************************************************************************)
InitOverrides ==
    /\ client \in {NewClient("key", "s3cr3t", "pass", FALSE, rp) : rp \in HeaderParams}
    /\ pc = "idle"
    /\ call = NoCall
    /\ req = NoReq
    /\ sig = NoSig
    /\ nsent = 0
    /\ resp = NoResp
    /\ outcome = NoOutcome
    /\ threads = NoThreads

NextOverrides ==
    \/ GetTimestamp
    \/ GetAccounts
    \/ CreateAccount
    \/ Transmit
    \/ Receive
    \/ TransportError
    \/ Finish

SpecOverrides == InitOverrides /\ [][NextOverrides]_vars

(***************************************************************************)
(* Properties of the signer.                                               *)
(***************************************************************************)
\* the versioned path of the call in progress
FullPathOfCall == "/api/v1/" \o call.path

RECURSIVE QueryUpTo(_, _)
\* "k1=v1&...&kn=vn" over the first n entries of d, left to right
QueryUpTo(d, n) ==
    IF n = 0 THEN ""
    ELSE IF n = 1 THEN d[1].k \o "=" \o PyFormat(d[1].v)
    ELSE QueryUpTo(d, n - 1) \o "&" \o d[n].k \o "=" \o PyFormat(d[n].v)

\* a signed request with a JSON body has been handed to the transport
SignedBodyCall ==
    pc = "sent" /\ call.signed /\ call.method # "get" /\ Len(call.data) > 0

\* C1: for a signed post, put or delete whose data is non-empty, the body
\* segment of the signed string is the very string handed to the transport
\* as the body, and it is the minified JSON of the call's data in its order.
C1_SignedBodyIsSentBody ==
    SignedBodyCall =>
        /\ req.dataKind = "json"
        /\ req.dataJson = sig.data_json
        /\ req.dataJson = compact_json_dict(call.data)

C1_Witness ==
    /\ SignedBodyCall
    /\ call.method = "delete"
    /\ call.data = << [k |-> "symbol", v |-> PyStr("BTC")], [k |-> "amount", v |-> PyInt(10)] >>
    /\ sig.data_json = "{\"symbol\":\"BTC\",\"amount\":10}"
    /\ req.dataJson = "{\"symbol\":\"BTC\",\"amount\":10}"

\* C2: for a signed GET the endpoint in the signature is the versioned path
\* followed by "?" and "k1=v1&k2=v2&..." in insertion order when the
\* parameter mapping is non-empty, and the versioned path alone, without "?",
\* when it is empty.
C2_GetEndpointInInsertionOrder ==
    (pc = "sent" /\ call.signed /\ call.method = "get") =>
        sig.endpoint = IF Len(call.data) = 0
                       THEN FullPathOfCall
                       ELSE FullPathOfCall \o "?" \o QueryUpTo(call.data, Len(call.data))

C2_Witness ==
    /\ pc = "sent" /\ call.signed /\ call.method = "get"
    /\ call.data = << [k |-> "symbol", v |-> PyStr("BTC")], [k |-> "amount", v |-> PyInt(10)] >>
    /\ sig.endpoint = "/api/v1/accounts?symbol=BTC&amount=10"

\* C3: the signed string is timestamp, upper-cased method, endpoint and body
\* with nothing between them; the body is empty for a non-GET call without
\* data and for every GET call, and the endpoint carries the query string
\* for GET only.
C3_CanonicalString ==
    (pc = "sent" /\ call.signed) =>
        LET method == [get |-> "GET", post |-> "POST", put |-> "PUT",
                       delete |-> "DELETE"][call.method]
            query == IF call.method = "get" /\ Len(call.data) > 0
                     THEN "?" \o QueryUpTo(call.data, Len(call.data)) ELSE ""
            body == IF call.method # "get" /\ Len(call.data) > 0
                    THEN compact_json_dict(call.data) ELSE ""
        IN  /\ sig.sig_str = ToString(call.nonce) \o method \o FullPathOfCall \o query \o body
            /\ sig.sig_str = sig.nonce \o sig.method \o sig.endpoint \o sig.data_json
            /\ (call.method = "get" \/ Len(call.data) = 0) => sig.data_json = ""
            /\ DictGet(req.headers, "KC-API-SIGN")
                   = "b64(hmac-sha256(" \o client.API_SECRET \o "," \o sig.sig_str \o "))"

C3_Witness ==
    /\ pc = "sent" /\ call.signed /\ call.method = "post" /\ Len(call.data) = 0
    /\ sig.sig_str = "1000POST/api/v1/accounts"

(***************************************************************************)
(* Properties of the response handler.                                     *)
(***************************************************************************)
\* the call is over and the transport did return a response
Responded == pc = "done" /\ resp.status_code \in Statuses

Is2xx(status_code) == status_code \in 200..299

\* C4: a response whose status is not 2xx makes the call raise the API error,
\* and response.json() is not invoked first, whatever the body is.
C4_Non2xxRaisesBeforeDecode ==
    (Responded /\ ~Is2xx(resp.status_code)) =>
        /\ outcome.kind = "raise"
        /\ outcome.exc = "KucoinAPIException"
        /\ ~outcome.decoded

C4_Witness ==
    /\ Responded
    /\ resp.status_code = 500
    /\ resp.body.decodes
    /\ resp.body.value = Envelope(JStr("200000"), JBool(TRUE), JNull)
    /\ outcome.exc = "KucoinAPIException"

\* a member of a decoded body: present only in a JSON object that has it
Member(res, key) ==
    IF res.t = "obj" /\ HasKey(res.fields, key) THEN DictGet(res.fields, key) ELSE Absent

\* the decision function of C5 for the body of a 2xx response; "false" is
\* read as Python reads it (not res['success'])
Decision(body) ==
    IF ~body.decodes THEN Raise("KucoinRequestException", TRUE)
    ELSE LET res == body.value
             code == Member(res, "code")
             success == Member(res, "success")
             data == Member(res, "data")
         IN  IF code # Absent /\ code # JStr("200000") THEN Raise("KucoinAPIException", TRUE)
             ELSE IF success # Absent /\ ~JsonTruthy(success)
                  THEN Raise("KucoinAPIException", TRUE)
             ELSE IF data # Absent THEN Return(data)
             ELSE Return(res)

\* C5: for a 2xx response the outcome is the decision function of the body
\* (undecodable: request error; code present and not "200000": API error;
\* success present and false: API error; else data when present, else the
\* whole decoded value), so a returned result implies code absent or
\* "200000" and success absent or true.
C5_DecisionFunction ==
    (Responded /\ Is2xx(resp.status_code)) =>
        /\ outcome = Decision(resp.body)
        /\ outcome.kind = "return" =>
              /\ Member(resp.body.value, "code") \in {Absent, JStr("200000")}
              /\ Member(resp.body.value, "success") = Absent
                    \/ JsonTruthy(Member(resp.body.value, "success"))

TypedErrors ==
    {"KucoinAPIException", "KucoinRequestException", "MarketOrderException",
     "LimitOrderException"}

\* C6: for every response, whatever its status and body (a body that decodes
\* to null, a number, a boolean, a string or an array included), the call
\* returns a result or raises one of the typed errors.
C6_OnlyTypedErrors ==
    Responded => (outcome.kind = "return" \/ outcome.exc \in TypedErrors)

(***************************************************************************)
(* Properties of the endpoint builders.  A parameter is "given" ("set",     *)
(* "supplied") when it is truthy, which is what the builders test: None,   *)
(* 0, '' and False all count as not given.                                 *)
(***************************************************************************)
Given(x) == x.t # "none" /\ x.v \notin {"", "0", "False"}

\* the call in progress, or just rejected, is an invocation of fn
Invoked(fn) == pc \in {"raised", "sent"} /\ call.fn = fn

\* the call in progress is a signed POST of JSON to path
SignedPostTo(path) ==
    /\ pc = "sent"
    /\ call.method = "post" /\ call.signed /\ call.path = path
    /\ req.method = "post"
    /\ req.uri = client.API_URL \o "/api/v1/" \o path
    /\ req.dataJson = compact_json_dict(call.data)
    /\ HasKey(req.headers, "KC-API-SIGN")

\* data maps key to val
Maps(data, key, val) == HasKey(data, key) /\ DictGet(data, key) = val

\* C7: create_market_order raises the market-order error when size and funds
\* are both given and when neither is; with exactly one given it raises
\* nothing and stages a signed POST to 'orders' with side, symbol, type
\* 'market', the one quantity given (not the other) and a clientOid.
C7_MarketOrderValidation ==
    Invoked("create_market_order") =>
        LET a == call.args
        IN  IF Given(a.size) = Given(a.funds)
            THEN pc = "raised" /\ outcome = Raise("MarketOrderException", FALSE)
            ELSE /\ SignedPostTo("orders")
                 /\ Maps(call.data, "side", a.side)
                 /\ Maps(call.data, "symbol", a.symbol)
                 /\ Maps(call.data, "type", PyStr("market"))
                 /\ HasKey(call.data, "clientOid")
                 /\ IF Given(a.size)
                    THEN Maps(call.data, "size", a.size) /\ ~HasKey(call.data, "funds")
                    ELSE Maps(call.data, "funds", a.funds) /\ ~HasKey(call.data, "size")

C7_Witness ==
    /\ Invoked("create_market_order")
    /\ call.args.size = PyNone /\ call.args.funds = PyStr("100")
    /\ call.args.client_oid = PyNone /\ call.args.remark = PyNone /\ call.args.stp = PyNone
    /\ req.dataJson = "{\"side\":\"buy\",\"symbol\":\"KCS-BTC\",\"type\":\"market\","
                       \o "\"funds\":\"100\",\"clientOid\":\"uuid-a\"}"

\* the five invalid combinations of C8
LimitOrderInvalid(a) ==
    \/ Given(a.stop) /\ ~Given(a.stop_price)
    \/ Given(a.stop_price) /\ ~Given(a.stop)
    \/ Given(a.cancel_after) /\ a.time_in_force # PyStr("GTT")
    \/ Given(a.hidden) /\ Given(a.iceberg)
    \/ Given(a.iceberg) /\ ~Given(a.visible_size)

\* C8: create_limit_order raises the limit-order error exactly when stop is
\* set without stop_price, stop_price without stop, cancel_after with a
\* time_in_force other than 'GTT', hidden together with iceberg, or iceberg
\* without visible_size; otherwise it stages a signed POST to 'orders'.
C8_LimitOrderValidation ==
    Invoked("create_limit_order") =>
        IF LimitOrderInvalid(call.args)
        THEN pc = "raised" /\ outcome = Raise("LimitOrderException", FALSE)
        ELSE SignedPostTo("orders") /\ outcome = Pending

C8_Witness ==
    /\ Invoked("create_limit_order")
    /\ pc = "raised"
    /\ call.args.stop = PyNone /\ call.args.stop_price = PyStr("0.4")
    /\ call.args.cancel_after = PyNone /\ call.args.hidden = PyNone
    /\ call.args.iceberg = PyNone
    /\ outcome.exc = "LimitOrderException"

\* the identifier the caller passed to the call in progress
CallerOid ==
    IF call.fn = "create_inner_transfer" THEN call.args.order_id ELSE call.args.client_oid

\* C9: create_market_order, create_limit_order and create_inner_transfer,
\* once past validation, send a clientOid: the caller's identifier when one is
\* supplied, an identifier generated for this call otherwise.
C9_ClientOidAlwaysSent ==
    (pc = "sent" /\ call.fn \in {"create_market_order", "create_limit_order",
                                 "create_inner_transfer"}) =>
        /\ req.dataKind = "json"
        /\ req.dataJson = compact_json_dict(call.data)
        /\ HasKey(call.data, "clientOid")
        /\ IF Given(CallerOid)
           THEN DictGet(call.data, "clientOid") = CallerOid
           ELSE /\ call.uuid \in UUIDs
                /\ DictGet(call.data, "clientOid") = PyStr(call.uuid)

C9_Witness ==
    /\ pc = "sent" /\ call.fn = "create_limit_order"
    /\ call.args.client_oid = PyNone
    /\ Maps(call.data, "clientOid", PyStr("uuid-b"))

\* the arguments of the call fail the validation of its endpoint method
FailsValidation ==
    \/ call.fn = "create_market_order" /\ Given(call.args.size) = Given(call.args.funds)
    \/ call.fn = "create_limit_order" /\ LimitOrderInvalid(call.args)

\* C10: a call that fails parameter validation hands nothing to the transport,
\* and a call that passes validation hands it exactly one request, also once
\* an error response, an undecodable body or a transport failure has ended it.
C10_OneRequestPerValidCall ==
    /\ (pc \in {"raised", "sent"} /\ FailsValidation) =>
            pc = "raised" /\ nsent = 0 /\ req = NoReq
    /\ (pc \in {"raised", "sent"} /\ ~FailsValidation) => pc = "sent" /\ nsent = 1
    /\ pc \in {"waiting", "done"} => nsent = 1
    /\ pc = "idle" => nsent = 0

C10_Witness ==
    /\ pc = "done"
    /\ nsent = 1
    /\ resp.status_code = 500
    /\ outcome.exc = "KucoinAPIException"

\* C11: cancel_all_orders without a symbol (None) sends a signed DELETE to
\* 'orders' whose data has no 'symbol' key, so the signed body segment is
\* empty and no JSON body is built; with a symbol the data is exactly
\* {'symbol': symbol}.
C11_CancelAllOmitsSymbol ==
    (pc = "sent" /\ call.fn = "cancel_all_orders") =>
        /\ call.method = "delete" /\ call.signed /\ call.path = "orders"
        /\ req.method = "delete"
        /\ req.uri = client.API_URL \o "/api/v1/orders"
        /\ sig.signed
        /\ IF call.args.symbol = PyNone
           THEN /\ ~HasKey(call.data, "symbol")
                /\ sig.data_json = ""
                /\ sig.sig_str = ToString(call.nonce) \o "DELETE/api/v1/orders"
                /\ req.dataKind # "json" /\ req.dataJson = ""
                /\ req.dataDict = EmptyDict
                /\ ~req.hasParams
           ELSE /\ call.data = << [k |-> "symbol", v |-> call.args.symbol] >>
                /\ req.dataJson = "{\"symbol\":\"" \o call.args.symbol.v \o "\"}"
                /\ sig.data_json = req.dataJson

C11_Witness ==
    /\ pc = "sent" /\ call.fn = "cancel_all_orders"
    /\ call.args.symbol = PyNone
    /\ req.method = "delete"
    /\ req.dataDict = EmptyDict
    /\ sig.sig_str = "1001DELETE/api/v1/orders"

\* the caller leaves the argument out: not passed, or passed as the None that
\* the parameter's declaration holds anyway
LeftOut(x) == x = Omitted \/ x = PyNone

\* the optional parameters of the endpoint methods and the data keys they are
\* staged under, the client order identifiers and the three optional
\* parameters of get_kline_data aside
OptionalParams ==
    {<<"create_market_order", p[1], p[2]>> :
        p \in {<<"size", "size">>, <<"funds", "funds">>, <<"remark", "remark">>,
               <<"stp", "stp">>}}
    \cup {<<"create_limit_order", p[1], p[2]>> :
        p \in {<<"remark", "remark">>, <<"stp", "stp">>,
               <<"time_in_force", "timeInForce">>, <<"cancel_after", "cancelAfter">>,
               <<"post_only", "postOnly">>, <<"stop", "stop">>,
               <<"stop_price", "stopPrice">>, <<"hidden", "hidden">>,
               <<"iceberg", "iceberg">>, <<"visible_size", "visible_size">>}}
    \cup {<<"cancel_all_orders", "symbol", "symbol">>}
    \cup {<<"get_account_activity", p[1], p[2]>> :
        p \in {<<"start", "startAt">>, <<"end", "endAt">>, <<"page", "currentPage">>,
               <<"limit", "pageSize">>}}
    \cup {<<"get_account_holds", p[1], p[2]>> :
        p \in {<<"page", "currentPage">>, <<"page_size", "pageSize">>}}
    \cup {<<fn, p[1], p[2]>> :
        fn \in {"get_deposits", "get_withdrawals"},
        p \in {<<"currency", "currency">>, <<"status", "status">>,
               <<"start", "startAt">>, <<"end", "endAt">>, <<"page", "page">>,
               <<"limit", "pageSize">>}}
    \cup {<<"create_withdrawal", p[1], p[2]>> :
        p \in {<<"memo", "memo">>, <<"is_inner", "isInner">>, <<"remark", "remark">>}}
    \cup {<<fn, p[1], p[2]>> :
        fn \in {"get_orders", "get_historical_orders", "get_fills"},
        p \in {<<"symbol", "symbol">>, <<"side", "side">>, <<"start", "startAt">>,
               <<"end", "endAt">>, <<"page", "page">>, <<"limit", "pageSize">>}}
    \cup {<<fn, "order_type", "type">> : fn \in {"get_orders", "get_fills"}}
    \cup {<<"get_orders", "status", "status">>, <<"get_fills", "order_id", "orderId">>}
    \cup {<<"get_ticker", "symbol", "symbol">>}
    \cup {<<"get_fiat_prices", p[1], p[2]>> :
        p \in {<<"base", "base">>, <<"symbol", "currencies">>}}

\* the optional parameters of get_kline_data
KlineOptionalParams ==
    {<<"get_kline_data", p[1], p[2]>> :
        p \in {<<"kline_type", "type">>, <<"start", "startAt">>, <<"end", "endAt">>}}

\* the request in progress stages nothing under the key of a parameter of
\* params that its caller left out, neither in the data mapping nor in the
\* query parameters or the JSON body made from it
OmitsLeftOut(params) ==
    pc = "sent" =>
        \A e \in params :
            (call.fn = e[1] /\ LeftOut(call.args[e[2]])) =>
                /\ ~HasKey(call.data, e[3])
                /\ ~HasKey(req.params, e[3])
                /\ ~Contains(req.dataJson, "\"" \o e[3] \o "\":")

\* C12 as stated: for every endpoint method, get_kline_data with its start and
\* end among them, an optional parameter the caller leaves out contributes no
\* key to the outgoing request data (the generated client order identifier
\* aside).
C12_AbsentOptionalOmitted == OmitsLeftOut(OptionalParams \cup KlineOptionalParams)

\* C12, amended: the same for every endpoint method but get_kline_data, which
\* always stages startAt and endAt: the caller's start and end when they are
\* not None, else the first second of the current UTC day and the current
\* time in seconds; its type is the caller's kline_type, '5min' when the
\* argument is not passed, and no key when it is passed as None.
C12_AbsentOptionalOmittedButKline ==
    /\ OmitsLeftOut(OptionalParams)
    /\ (pc = "sent" /\ call.fn = "get_kline_data") =>
        LET a == call.args
        IN  /\ DictKeys(call.data) =
                    {"symbol", "startAt", "endAt"}
                        \cup (IF a.kline_type = PyNone THEN {} ELSE {"type"})
            /\ req.params = call.data
            /\ a.kline_type = Omitted => DictGet(call.data, "type") = PyStr("5min")
            /\ a.kline_type \notin {Omitted, PyNone} =>
                    DictGet(call.data, "type") = a.kline_type
            /\ IF LeftOut(a.start)
               THEN \E now \in ClockSecs :
                        DictGet(call.data, "startAt") = PyInt(now - (now % 86400))
               ELSE DictGet(call.data, "startAt") = a.start
            /\ IF LeftOut(a.end)
               THEN DictGet(call.data, "endAt") \in {PyInt(now) : now \in ClockSecs}
               ELSE DictGet(call.data, "endAt") = a.end

C12_Witness ==
    /\ pc = "sent" /\ call.fn = "get_orders"
    /\ call.args.symbol = PyStr("KCS-BTC")
    /\ call.args.start = PyNone /\ call.args.page = PyNone
    /\ req.params = << [k |-> "symbol", v |-> PyStr("KCS-BTC")] >>

\* get_kline_data called with the symbol alone
C12_KlineWitness ==
    /\ pc = "sent" /\ call.fn = "get_kline_data"
    /\ call.args.kline_type = Omitted /\ call.args.start = Omitted
    /\ call.args.end = Omitted
    /\ req.params = << [k |-> "symbol", v |-> PyStr("KCS-BTC")],
                       [k |-> "type", v |-> PyStr("5min")],
                       [k |-> "startAt", v |-> PyInt(86400)],
                       [k |-> "endAt", v |-> PyInt(172900)] >>

\* C13: no call changes the client: its credentials, its base URL, the
\* session's default headers and requests_params, the headers mapping inside
\* it included, stay what the constructor made them.
C13_ClientStateUnchanged == [][client' = client]_vars

\* C15: an unsigned request carries neither KC-API-TIMESTAMP nor KC-API-SIGN
\* among its per-call headers, whatever calls the client made before.
C15_UnsignedSendsNoSignature ==
    (pc = "sent" /\ ~call.signed) =>
        /\ ~HasKey(req.headers, "KC-API-TIMESTAMP")
        /\ ~HasKey(req.headers, "KC-API-SIGN")

\* C14: whatever the interleaving of the signed calls of several threads on
\* one client, and whatever the client's requests_params, a request is
\* handed to the transport with the timestamp header and the signature
\* header computed for that very request.
C14_RequestCarriesOwnSignature ==
    \A t \in Callers :
        threads[t].at = 139 =>
            /\ Maps(threads[t].sent, "KC-API-TIMESTAMP", ToString(threads[t].nonce))
            /\ Maps(threads[t].sent, "KC-API-SIGN",
                    _generate_signature(client.API_SECRET, threads[t].nonce,
                                        threads[t].method,
                                        "/api/v1/" \o threads[t].path,
                                        threads[t].data))

====
